---- MODULE Spec2Model ----
(***************************************************************************)
(* A state-machine model of read_energy_meters.py: the poll loop of main,  *)
(* the connection guardian ensure_connection, the register decoders, the   *)
(* charging point reader read_charging_point and publish_data.             *)
(*                                                                         *)
(* The field-bus handle is the flag `connected` (client.connected); it is  *)
(* changed by the program's own close() and connect() calls.  Every call   *)
(* into the transport (probe read, register read, connect) draws its       *)
(* outcome from ok / error response / exception.  Floating point values    *)
(* are kept as unreduced fractions <<numerator, denominator>>, so that     *)
(* val / 1000.0 is <<val, 1000>> and not val.                              *)
(***************************************************************************)
EXTENDS Integers, Sequences, FiniteSets, TLC

\* ------------------------------------------------------------ bounds
\* Raw milli-unit readings offered by the device for power and apparent
\* power are 0..MaxRaw (the two inputs of the derived power factor).
MaxRaw == 1

\* The decoders are also run on registers of DecBits bits, all of whose
\* values can be enumerated.
DecBits == 2

\* ------------------------------------------------- program constants
MaxRetries == 3
MaxConsecutiveFailures == 5
ReconnectDelay == 1
Cooldown == 30
POLL_INTERVAL == 30
MilliScale == 1000
WordBase == 65536

\* CHARGING_POINTS, in iteration order: cp_id, display name, base address.
CHARGING_POINTS ==
  << [id |-> "cp1", name |-> "links", base_address |-> 1000],
     [id |-> "cp2", name |-> "rechts", base_address |-> 2000] >>

NumPoints == Len(CHARGING_POINTS)

\* REGISTER_MAP: offsets from the base address.
REGISTER_MAP ==
  [ voltage_l1 |-> 232, voltage_l2 |-> 234, voltage_l3 |-> 236,
    current_l1 |-> 238, current_l2 |-> 240, current_l3 |-> 242,
    power |-> 244, reactive_power |-> 246, apparent_power |-> 248,
    energy_total |-> 250, energy_reactive |-> 254, energy_apparent |-> 258,
    current_setting |-> 297, vehicle_status |-> 299 ]

\* The ten reads of read_charging_point, in program order: the register
\* label, the decoder used, the metric key stored and the divisor applied.
ReadOrder ==
  << [reg |-> "voltage_l1", kind |-> "u32", key |-> "Voltage/L1", den |-> MilliScale],
     [reg |-> "voltage_l2", kind |-> "u32", key |-> "Voltage/L2", den |-> MilliScale],
     [reg |-> "voltage_l3", kind |-> "u32", key |-> "Voltage/L3", den |-> MilliScale],
     [reg |-> "current_l1", kind |-> "u32", key |-> "Current/L1", den |-> MilliScale],
     [reg |-> "current_l2", kind |-> "u32", key |-> "Current/L2", den |-> MilliScale],
     [reg |-> "current_l3", kind |-> "u32", key |-> "Current/L3", den |-> MilliScale],
     [reg |-> "power", kind |-> "u32", key |-> "Power", den |-> MilliScale],
     [reg |-> "reactive_power", kind |-> "i32", key |-> "ReactivePower", den |-> MilliScale],
     [reg |-> "apparent_power", kind |-> "u32", key |-> "ApparentPower", den |-> MilliScale],
     [reg |-> "energy_total", kind |-> "u64", key |-> "Import", den |-> 1] >>

NumReads == Len(ReadOrder)

ReadKeys == { ReadOrder[i].key : i \in 1..NumReads }

\* Outcomes of one call into the transport library.
Outcomes == {"ok", "err", "exc"}

\* ----------------------------------------------------------- decoders
\* An Optional[int] is <<>> (None) or <<v>>.
None == <<>>

Some(v) == <<v>>

\* The decoders take the word base b as a parameter: the program's
\* registers are 16-bit words, b = WordBase.  The arithmetic is Python's,
\* on unbounded integers.

\* A mutant of read_u32: the high word is shifted one bit short.
read_u32ShortShift(b, out, regs) ==
  IF out = "ok" THEN Some(regs[1] * (b \div 2) + regs[2]) ELSE None

\* read_u32: one request of 2 registers; (hi << 16) | lo.
read_u32(b, out, regs) ==
  IF out = "ok" THEN Some(regs[1] * b + regs[2]) ELSE None

\* A mutant of read_i32: the top bit read as a sign flag on a magnitude.
read_i32SignMagnitude(b, out, regs) ==
  IF out = "ok"
    THEN Some(IF regs[1] >= b \div 2
                THEN 0 - ((regs[1] - b \div 2) * b + regs[2])
                ELSE regs[1] * b + regs[2])
    ELSE None

\* read_i32: as read_u32, the 32-bit pattern reinterpreted as two's
\* complement (struct.pack('>I') then struct.unpack('>i')): a pattern with
\* the top bit of the high word set stands for pattern - 2^32.  The
\* subtraction is applied to the high word, pattern - b*b being
\* (hi - b) * b + lo, so that no intermediate value leaves the signed range.
read_i32(b, out, regs) ==
  IF out = "ok"
    THEN Some((IF regs[1] >= b \div 2 THEN regs[1] - b ELSE regs[1]) * b + regs[2])
    ELSE None

\* read_u64: one request of 4 registers, most significant first;
\* (r0 << 48) | (r1 << 32) | (r2 << 16) | r3.
read_u64(b, out, regs) ==
  IF out = "ok"
    THEN Some(((regs[1] * b + regs[2]) * b + regs[3]) * b + regs[4])
    ELSE None

\* read_u16: one request of 1 register.
read_u16(b, out, regs) ==
  IF out = "ok" THEN Some(regs[1]) ELSE None

Decode(b, kind, out, regs) ==
  CASE kind = "u32" -> read_u32(b, out, regs)
    [] kind = "i32" -> read_i32(b, out, regs)
    [] kind = "u64" -> read_u64(b, out, regs)
    [] OTHER -> read_u16(b, out, regs)

\* Register blocks the device may answer with, per register label.
RegSamples(reg) ==
  CASE reg \in {"power", "apparent_power"} -> { <<0, v>> : v \in 0..MaxRaw }
    [] reg = "reactive_power" -> { <<65535, 65535>> }
    [] reg = "energy_total" -> { <<0, 0, 1, 57920>> }
    [] OTHER -> { <<3, 31312>> }

\* ------------------------------------------------------- metric sets
\* A metric set (the dict `data`) is a function from the keys present to
\* fractions <<num, den>>.
EmptyDict == [k \in {} |-> <<0, 1>>]

Put(d, key, val) ==
  [k \in (DOMAIN d) \cup {key} |-> IF k = key THEN val ELSE d[k]]

\* A mutant of Store: a failed read is stored as zero.
StoreZeroFill(d, step, opt) ==
  Put(d, step.key, IF opt = None THEN <<0, step.den>> ELSE <<opt[1], step.den>>)

\* `if (val := read_xxx(...)) is not None: data[key] = val / den`
Store(d, step, opt) ==
  IF opt = None THEN d ELSE Put(d, step.key, <<opt[1], step.den>>)

\* A mutant of CosphiDue: apparent power zero is let through.
CosphiDueNonNegative(d) ==
  /\ "Power" \in DOMAIN d
  /\ "ApparentPower" \in DOMAIN d
  /\ d["ApparentPower"][1] >= 0

\* `"Power" in data and "ApparentPower" in data and data["ApparentPower"] > 0`
CosphiDue(d) ==
  /\ "Power" \in DOMAIN d
  /\ "ApparentPower" \in DOMAIN d
  /\ d["ApparentPower"][1] > 0

\* The quotient of two fractions, unreduced: (a/b) / (c/d) = (a*d) / (b*c).
Quotient(p, q) == <<p[1] * q[2], p[2] * q[1]>>

\* Lines 174-176: the derived power factor.
AddCosphi(d) ==
  IF CosphiDue(d) THEN Put(d, "Cosphi", Quotient(d["Power"], d["ApparentPower"])) ELSE d

\* `if data:` / `data if data else None`
Truthy(d) == DOMAIN d # {}


\* Number of registers one decoder call requests.
RegCount(kind) ==
  CASE kind = "u32" -> 2
    [] kind = "i32" -> 2
    [] kind = "u64" -> 4
    [] OTHER -> 1

\* publish_data: one message per entry of the metric set, on
\* <prefix>/<cp_name>/<key>; the prefix is the same for all and left out.
Messages(cp_name, d) ==
  { [name |-> cp_name, key |-> k, payload |-> d[k]] : k \in DOMAIN d }

\* ---------------------------------------------------------- guardian
\* A mutant of ProbeAlive: a good probe answer is taken for a dead link.
ProbeNeverAlive(out) == FALSE

\* `if not test_read.isError(): return True` (an exception skips it).
ProbeAlive(out) == out = "ok"

\* A mutant of NeedsBackoff: the backoff also follows the last attempt.
NeedsBackoffAlways(att) == att < MaxRetries

\* `if attempt < max_retries - 1:`
NeedsBackoff(att) == att < MaxRetries - 1

\* `time.sleep(2 ** attempt)`
BackoffDelay(att) == 2 ^ att

Event(op, arg) == [op |-> op, arg |-> arg]

\* ------------------------------------------------------ orchestrator
\* A mutant of AfterGuardian: a failed guardian does not skip the reads.
AfterGuardianAlwaysRead(ok) == "call_read"

\* A mutant of AfterGuardian: a failed guardian ends main.
AfterGuardianExit(ok) == IF ok THEN "call_read" ELSE "finally"

\* `if not ensure_connection(modbus_client): ... continue`
AfterGuardian(ok) == IF ok THEN "call_read" ELSE "cooldown"

\* A mutant of ShouldPublish: an unread point is published all the same.
ShouldPublishAlways(res, d) == TRUE

\* `if data:` on the value read_charging_point returned (None or a dict).
ShouldPublish(res, d) == res = "dict" /\ Truthy(d)

\* A mutant of TrackFailures: a cycle with data leaves the counter alone.
TrackFailuresNoReset(c, succ) == IF succ THEN c ELSE c + 1

\* `if not success: consecutive_failures += 1 ... else: consecutive_failures = 0`
TrackFailures(c, succ) == IF succ THEN 0 ELSE c + 1

\* A mutant of ThresholdReached: the threshold itself does not trigger.
ThresholdReachedStrict(c) == c > MaxConsecutiveFailures

\* A mutant of ThresholdReached: the threshold never triggers.
ThresholdReachedNever(c) == FALSE

\* A mutant of ThresholdReached: any failed cycle triggers.
ThresholdReachedEarly(c) == c >= 1

\* `if consecutive_failures >= max_consecutive_failures:`
ThresholdReached(c) == c >= MaxConsecutiveFailures

\* A mutant of AfterRead: a read without a value ends the call.
AfterReadAbortOnNone(i, opt) ==
  IF i = NumReads \/ opt = None THEN "derive" ELSE "read"

\* Lines 146-172 are straight-line code: after the i-th decoder call comes
\* the next one, whatever it returned, and after the last line 174.
AfterRead(i, opt) == IF i = NumReads THEN "derive" ELSE "read"

\* A mutant of DecoderRequests: a failed request is repeated once.
DecoderRequestsRetry(kind, out) ==
  IF out = "ok" THEN <<RegCount(kind)>> ELSE <<RegCount(kind), RegCount(kind)>>

\* Lines 97-98, 108-109, 120-121, 132-133: a decoder makes one
\* read_holding_registers request, of the count of its kind.
DecoderRequests(kind, out) == <<RegCount(kind)>>

\* Lines 99-104 and the like: a decoder returns a value, or returns None
\* on an error response and from its `except Exception` handler.
DecoderExit(out) == IF out = "ok" THEN "value" ELSE "none"

\* ------------------------------------------------------------- state
VARIABLES
  pc,                    \* position of the single thread of control
  exit,                  \* why main left: none, mqtt_failed, modbus_failed, interrupt
  connected,             \* modbus_client.connected
  mqttConnected,         \* the broker client is connected
  mqttLoop,              \* the broker client's network loop runs
  consecutive_failures,  \* main's counter
  success,               \* main's per-cycle flag
  cpIdx,                 \* index into CHARGING_POINTS of the for loop
  attempt,               \* ensure_connection's loop variable
  ecResult,              \* ensure_connection's return value
  ecLog,                 \* calls made by the running ensure_connection
  ecStartConnected,      \* client.connected when ensure_connection was entered
  ri,                    \* index into ReadOrder of the next read
  data,                  \* the metric set being built / returned
  cpResult,              \* what read_charging_point returned: none or dict
  issued,                \* requests made by the running read_charging_point
  okVals,                \* what the successful reads of that call decoded
  okCp,                  \* the charging point those reads belong to
  lastPub,               \* messages of the last publish_data call
  cycKind,               \* the cycle: idle, guarding, reading, guard_failed, data, nodata
  cycReads,              \* register reads issued to charging points this cycle
  cycPubs,               \* charging points publish_data was called for this cycle
  lastSleep,             \* the sleep that ended the last cycle
  cfAtStart,             \* consecutive_failures when the cycle began
  cfTracked,             \* the counter as line 242 or 248 left it this cycle, -1 before
  cycOk,                 \* charging points with a successful read this cycle
  forcedClose,           \* line 245 ran this cycle
  noDataRun,             \* consecutive finished cycles without data (windows of 5)
  runCloses,             \* forced closes within that window
  failRun,               \* consecutive all-failed read cycles (windows of 5)
  failRunCloses,         \* forced closes within that window
  modbusCreated,         \* line 207 ran: the field-bus client object exists
  prevForced,            \* line 245 ran in the cycle before the one now starting
  interruptedAt,         \* where the thread was when a KeyboardInterrupt arrived
  dpc,                   \* a decoder called on its own: idle or called
  dBase,                 \* the word base of the registers it is given
  dKind,                 \* which decoder: u16, u32, i32, u64
  dOut,                  \* what the transport did with its request
  dRegs,                 \* the registers of the response
  dRequests,             \* the register counts of the requests it made
  dExit,                 \* how it left: value, none, raised
  dResult,               \* what it returned
  dEncoded               \* the integer whose pattern dRegs holds, if chosen so

brokerVars == <<mqttConnected, mqttLoop>>

guardVars == <<attempt, ecResult, ecLog, ecStartConnected>>

readerVars == <<ri, data, cpResult, issued, okVals, okCp, lastPub>>

cycleVars ==
  <<cycKind, cycReads, cycPubs, cycOk, lastSleep, cfAtStart, cfTracked, forcedClose>>

runVars == <<noDataRun, runCloses, failRun, failRunCloses>>

startVars == <<modbusCreated, prevForced, interruptedAt>>

decVars == <<dpc, dBase, dKind, dOut, dRegs, dRequests, dExit, dResult, dEncoded>>

mainVars ==
  <<pc, exit, connected, consecutive_failures, success, cpIdx,
    brokerVars, guardVars, readerVars, cycleVars, runVars, startVars>>

vars == <<mainVars, decVars>>

\* A mutant of InitData: the dict of the previous call is reused.
StaleData == data

\* `data = {}` at the top of read_charging_point.
InitData == EmptyDict

Init ==
  /\ pc = "mqtt_connect"
  /\ exit = "none"
  /\ connected = FALSE
  /\ mqttConnected = FALSE
  /\ mqttLoop = FALSE
  /\ consecutive_failures = 0
  /\ success = FALSE
  /\ cpIdx = 0
  /\ attempt = 0
  /\ ecResult = FALSE
  /\ ecLog = <<>>
  /\ ecStartConnected = FALSE
  /\ ri = 0
  /\ data = EmptyDict
  /\ cpResult = "none"
  /\ issued = <<>>
  /\ okVals = EmptyDict
  /\ okCp = 0
  /\ lastPub = {}
  /\ cycKind = "idle"
  /\ cycReads = 0
  /\ cycPubs = {}
  /\ lastSleep = 0
  /\ cfAtStart = 0
  /\ cfTracked = -1
  /\ cycOk = {}
  /\ forcedClose = FALSE
  /\ noDataRun = 0
  /\ runCloses = 0
  /\ failRun = 0
  /\ failRunCloses = 0
  /\ modbusCreated = FALSE
  /\ prevForced = FALSE
  /\ interruptedAt = "none"
  /\ dpc = "idle"
  /\ dBase = 0
  /\ dKind = "none"
  /\ dOut = "none"
  /\ dRegs = <<>>
  /\ dRequests = <<>>
  /\ dExit = "none"
  /\ dResult = None
  /\ dEncoded = None


\* ----------------------------------------------------------- startup
\* Lines 196-204: connect to the broker and start its loop; an exception
\* ends main before the field-bus client exists.
MqttConnect ==
  /\ pc = "mqtt_connect"
  /\ \E out \in {"ok", "exc"} :
       IF out = "ok"
         THEN /\ mqttConnected' = TRUE
              /\ mqttLoop' = TRUE
              /\ pc' = "modbus_connect"
              /\ exit' = exit
         ELSE /\ pc' = "done"
              /\ exit' = "mqtt_failed"
              /\ UNCHANGED brokerVars
  /\ UNCHANGED <<connected, consecutive_failures, success, cpIdx,
                 guardVars, readerVars, cycleVars, runVars>>
  /\ UNCHANGED <<startVars, decVars>>

\* A mutant of ModbusConnect: a refused first connect does not return.
ModbusConnectNoReturn ==
  /\ pc = "modbus_connect"
  /\ \E out \in Outcomes :
       IF out = "ok"
         THEN /\ connected' = TRUE
              /\ consecutive_failures' = 0
              /\ pc' = "loop"
              /\ exit' = exit
         ELSE /\ connected' = FALSE
              /\ consecutive_failures' = consecutive_failures
              /\ pc' = "loop"
              /\ exit' = "modbus_failed"
  /\ UNCHANGED <<success, cpIdx, brokerVars, guardVars, readerVars, cycleVars, runVars>>
  /\ modbusCreated' = TRUE
  /\ UNCHANGED <<prevForced, interruptedAt, decVars>>

\* Lines 207-216: the first connect of the field-bus client; a refusal
\* returns through the finally block.
ModbusConnect ==
  /\ pc = "modbus_connect"
  /\ \E out \in Outcomes :
       IF out = "ok"
         THEN /\ connected' = TRUE
              /\ consecutive_failures' = 0
              /\ pc' = "loop"
              /\ exit' = exit
         ELSE /\ connected' = FALSE
              /\ consecutive_failures' = consecutive_failures
              /\ pc' = "finally"
              /\ exit' = "modbus_failed"
  /\ UNCHANGED <<success, cpIdx, brokerVars, guardVars, readerVars, cycleVars, runVars>>
  /\ modbusCreated' = TRUE
  /\ UNCHANGED <<prevForced, interruptedAt, decVars>>

\* --------------------------------------------------- ensure_connection
\* Line 220 calls ensure_connection(modbus_client): a new poll cycle.  A
\* window of five cycles that was completed by the last cycle is closed.
EC_Enter ==
  /\ pc = "loop"
  /\ pc' = "ec_attempt"
  /\ attempt' = 0
  /\ ecResult' = FALSE
  /\ ecLog' = <<>>
  /\ ecStartConnected' = connected
  /\ cycKind' = "guarding"
  /\ cycReads' = 0
  /\ cycPubs' = {}
  /\ lastSleep' = 0
  /\ cfAtStart' = consecutive_failures
  /\ cfTracked' = -1
  /\ cycOk' = {}
  /\ forcedClose' = FALSE
  /\ noDataRun' = IF noDataRun >= MaxConsecutiveFailures THEN 0 ELSE noDataRun
  /\ runCloses' = IF noDataRun >= MaxConsecutiveFailures THEN 0 ELSE runCloses
  /\ failRun' = IF failRun >= MaxConsecutiveFailures THEN 0 ELSE failRun
  /\ failRunCloses' = IF failRun >= MaxConsecutiveFailures THEN 0 ELSE failRunCloses
  /\ UNCHANGED <<exit, connected, consecutive_failures, success, cpIdx,
                 brokerVars, readerVars>>
  /\ prevForced' = forcedClose
  /\ UNCHANGED <<modbusCreated, interruptedAt, decVars>>

\* Lines 66-74: the handle says it is connected; one probe read.
EC_Probe ==
  /\ pc = "ec_attempt"
  /\ attempt < MaxRetries
  /\ connected
  /\ \E out \in Outcomes :
       /\ ecLog' = Append(ecLog, Event("probe_" \o out, 0))
       /\ IF ProbeAlive(out)
            THEN /\ ecResult' = TRUE
                 /\ pc' = "ec_return"
            ELSE /\ ecResult' = ecResult
                 /\ pc' = "ec_reconnect"
  /\ UNCHANGED <<exit, connected, consecutive_failures, success, cpIdx, attempt,
                 ecStartConnected, brokerVars, readerVars, cycleVars, runVars>>
  /\ UNCHANGED <<startVars, decVars>>

\* Line 66 with the handle not connected: no probe.
EC_NoProbe ==
  /\ pc = "ec_attempt"
  /\ attempt < MaxRetries
  /\ ~connected
  /\ pc' = "ec_reconnect"
  /\ UNCHANGED <<exit, connected, consecutive_failures, success, cpIdx,
                 brokerVars, guardVars, readerVars, cycleVars, runVars>>
  /\ UNCHANGED <<startVars, decVars>>

\* Lines 76-87: close if open, sleep 1, connect.  The handle says it is
\* connected after a connect() that returned true, and only then.
EC_Reconnect ==
  /\ pc = "ec_reconnect"
  /\ \E out \in Outcomes :
       /\ ecLog' = ecLog
                   \o (IF connected THEN <<Event("close", 0)>> ELSE <<>>)
                   \o <<Event("delay", ReconnectDelay), Event("connect_" \o out, 0)>>
       /\ connected' = (out = "ok")
       /\ IF out = "ok"
            THEN /\ ecResult' = TRUE
                 /\ pc' = "ec_return"
            ELSE /\ ecResult' = ecResult
                 /\ pc' = "ec_backoff"
  /\ UNCHANGED <<exit, consecutive_failures, success, cpIdx, attempt,
                 ecStartConnected, brokerVars, readerVars, cycleVars, runVars>>
  /\ UNCHANGED <<startVars, decVars>>

\* Lines 89-90 and the loop header: back off unless this was the last
\* attempt, then the next attempt.
EC_Backoff ==
  /\ pc = "ec_backoff"
  /\ ecLog' = IF NeedsBackoff(attempt)
                THEN Append(ecLog, Event("backoff", BackoffDelay(attempt)))
                ELSE ecLog
  /\ attempt' = attempt + 1
  /\ pc' = "ec_attempt"
  /\ UNCHANGED <<exit, connected, consecutive_failures, success, cpIdx, ecResult,
                 ecStartConnected, brokerVars, readerVars, cycleVars, runVars>>
  /\ UNCHANGED <<startVars, decVars>>

\* Lines 92-93: all attempts used up.
EC_Exhausted ==
  /\ pc = "ec_attempt"
  /\ attempt >= MaxRetries
  /\ ecResult' = FALSE
  /\ pc' = "ec_return"
  /\ UNCHANGED <<exit, connected, consecutive_failures, success, cpIdx, attempt,
                 ecLog, ecStartConnected, brokerVars, readerVars, cycleVars, runVars>>
  /\ UNCHANGED <<startVars, decVars>>

\* Lines 220-226: main looks at the guardian's answer.  What the guardian
\* did stays on record until the cycle goes on (line 222 or line 230).
GuardianReturn ==
  /\ pc = "ec_return"
  /\ pc' = AfterGuardian(ecResult)
  /\ cycKind' = IF ecResult THEN "reading" ELSE "guard_failed"
  /\ success' = IF ecResult THEN FALSE ELSE success
  /\ cpIdx' = IF ecResult THEN 1 ELSE cpIdx
  /\ UNCHANGED <<exit, connected, consecutive_failures,
                 brokerVars, guardVars, readerVars, cycReads, cycPubs, cycOk, lastSleep, cfAtStart,
                 cfTracked, forcedClose, runVars>>
  /\ UNCHANGED <<startVars, decVars>>

\* The window of consecutive cycles without data moves on by one cycle
\* that yielded none.
NoDataStep(closed) ==
  /\ noDataRun' = noDataRun + 1
  /\ runCloses' = runCloses + (IF closed THEN 1 ELSE 0)

\* A mutant of CooldownSleep: a cycle the guardian failed resets the counter.
CooldownSleepResets ==
  /\ pc = "cooldown"
  /\ lastSleep' = Cooldown
  /\ pc' = "loop"
  /\ NoDataStep(forcedClose)
  /\ attempt' = 0
  /\ ecResult' = FALSE
  /\ ecLog' = <<>>
  /\ ecStartConnected' = FALSE
  /\ consecutive_failures' = 0
  /\ UNCHANGED <<exit, connected, success, cpIdx,
                 brokerVars, readerVars, cycKind, cycReads, cycPubs, cycOk,
                 cfAtStart, cfTracked, forcedClose, failRun, failRunCloses>>
  /\ prevForced' = FALSE
  /\ UNCHANGED <<modbusCreated, interruptedAt, decVars>>

\* Lines 221-223: the cooldown that ends a cycle the guardian failed.
CooldownSleep ==
  /\ pc = "cooldown"
  /\ lastSleep' = Cooldown
  /\ pc' = "loop"
  /\ NoDataStep(forcedClose)
  /\ attempt' = 0
  /\ ecResult' = FALSE
  /\ ecLog' = <<>>
  /\ ecStartConnected' = FALSE
  /\ UNCHANGED <<exit, connected, consecutive_failures, success, cpIdx,
                 brokerVars, readerVars, cycKind, cycReads, cycPubs, cycOk,
                 cfAtStart, cfTracked, forcedClose, failRun, failRunCloses>>
  /\ prevForced' = FALSE
  /\ UNCHANGED <<modbusCreated, interruptedAt, decVars>>


\* ------------------------------------------------- read_charging_point
\* Lines 228-230 and 143-144: main calls read_charging_point for the next
\* charging point, which starts from an empty dict.
CallRead ==
  /\ pc = "call_read"
  /\ pc' = "read"
  /\ ri' = 1
  /\ data' = InitData
  /\ cpResult' = "none"
  /\ issued' = <<>>
  /\ okVals' = EmptyDict
  /\ okCp' = cpIdx
  /\ lastPub' = {}
  /\ attempt' = 0
  /\ ecResult' = FALSE
  /\ ecLog' = <<>>
  /\ ecStartConnected' = FALSE
  /\ UNCHANGED <<exit, connected, consecutive_failures, success, cpIdx,
                 brokerVars, cycleVars, runVars>>
  /\ prevForced' = FALSE
  /\ UNCHANGED <<modbusCreated, interruptedAt, decVars>>

\* Lines 146-172: the next of the ten decoder calls, and the store of its
\* value if it has one.
ReadRegister ==
  /\ pc = "read"
  /\ ri \in 1..NumReads
  /\ LET step == ReadOrder[ri]
         addr == CHARGING_POINTS[cpIdx].base_address + REGISTER_MAP[step.reg]
     IN \E out \in Outcomes, regs \in RegSamples(step.reg) :
          LET opt == Decode(WordBase, step.kind, out, regs)
          IN /\ data' = Store(data, step, opt)
             /\ pc' = AfterRead(ri, opt)
             /\ okVals' = IF out = "ok"
                            THEN Put(okVals, step.key, <<opt[1], step.den>>)
                            ELSE okVals
             /\ issued' = Append(issued, <<addr, RegCount(step.kind)>>)
             /\ cycOk' = IF out = "ok" THEN cycOk \cup {cpIdx} ELSE cycOk
  /\ cycReads' = cycReads + 1
  /\ ri' = ri + 1
  /\ UNCHANGED <<exit, connected, consecutive_failures, success, cpIdx,
                 brokerVars, guardVars, cpResult, okCp, lastPub,
                 cycKind, cycPubs, lastSleep, cfAtStart, cfTracked, forcedClose,
                 runVars>>
  /\ UNCHANGED <<startVars, decVars>>

\* Lines 174-178: the derived power factor, and the return value.
FinishRead ==
  /\ pc = "derive"
  /\ data' = AddCosphi(data)
  /\ cpResult' = IF Truthy(data') THEN "dict" ELSE "none"
  /\ pc' = "cp_done"
  /\ UNCHANGED <<exit, connected, consecutive_failures, success, cpIdx,
                 brokerVars, guardVars, ri, issued, okVals, okCp, lastPub,
                 cycleVars, runVars>>
  /\ UNCHANGED <<startVars, decVars>>

\* Lines 232-238: publish what was read, if anything, and go on to the
\* next charging point.
CpDone ==
  /\ pc = "cp_done"
  /\ IF ShouldPublish(cpResult, data)
       THEN /\ lastPub' = Messages(CHARGING_POINTS[cpIdx].name, data)
            /\ cycPubs' = cycPubs \cup {cpIdx}
            /\ success' = TRUE
       ELSE UNCHANGED <<lastPub, cycPubs, success>>
  /\ IF cpIdx < NumPoints
       THEN /\ cpIdx' = cpIdx + 1
            /\ pc' = "call_read"
       ELSE /\ cpIdx' = cpIdx
            /\ pc' = "track"
  /\ UNCHANGED <<exit, connected, consecutive_failures, brokerVars, guardVars,
                 ri, data, cpResult, issued, okVals, okCp,
                 cycKind, cycReads, cycOk, lastSleep, cfAtStart, cfTracked, forcedClose,
                 runVars>>
  /\ UNCHANGED <<startVars, decVars>>

\* ------------------------------------------------------ orchestrator
\* Lines 240-242 and 247-248: count the cycle, or reset the counter.  The
\* loop body's locals are dead from here on.
Track ==
  /\ pc = "track"
  /\ consecutive_failures' = TrackFailures(consecutive_failures, success)
  /\ cfTracked' = consecutive_failures'
  /\ pc' = IF success THEN "poll_sleep" ELSE "threshold"
  /\ ri' = 0
  /\ data' = EmptyDict
  /\ cpResult' = "none"
  /\ issued' = <<>>
  /\ okVals' = EmptyDict
  /\ okCp' = 0
  /\ lastPub' = {}
  /\ UNCHANGED <<exit, connected, success, cpIdx, brokerVars, guardVars,
                 cycKind, cycReads, cycPubs, cycOk, lastSleep, cfAtStart, forcedClose,
                 runVars>>
  /\ UNCHANGED <<startVars, decVars>>

\* A mutant of Threshold: the counter is reset without closing the handle.
ThresholdNoClose ==
  /\ pc = "threshold"
  /\ IF ThresholdReached(consecutive_failures)
       THEN /\ connected' = connected
            /\ consecutive_failures' = 0
            /\ forcedClose' = TRUE
       ELSE UNCHANGED <<connected, consecutive_failures, forcedClose>>
  /\ pc' = "poll_sleep"
  /\ UNCHANGED <<exit, success, cpIdx, brokerVars, guardVars, readerVars,
                 cycKind, cycReads, cycPubs, cycOk, lastSleep, cfAtStart, cfTracked,
                 runVars>>
  /\ UNCHANGED <<startVars, decVars>>

\* Lines 243-246: at the threshold, close the handle and reset the counter.
Threshold ==
  /\ pc = "threshold"
  /\ IF ThresholdReached(consecutive_failures)
       THEN /\ connected' = FALSE
            /\ consecutive_failures' = 0
            /\ forcedClose' = TRUE
       ELSE UNCHANGED <<connected, consecutive_failures, forcedClose>>
  /\ pc' = "poll_sleep"
  /\ UNCHANGED <<exit, success, cpIdx, brokerVars, guardVars, readerVars,
                 cycKind, cycReads, cycPubs, cycOk, lastSleep, cfAtStart, cfTracked,
                 runVars>>
  /\ UNCHANGED <<startVars, decVars>>

\* Line 250: the sleep that ends a cycle that read the charging points.
PollSleep ==
  /\ pc = "poll_sleep"
  /\ lastSleep' = POLL_INTERVAL
  /\ cycKind' = IF success THEN "data" ELSE "nodata"
  /\ pc' = "loop"
  /\ IF success
       THEN /\ noDataRun' = 0
            /\ runCloses' = 0
            /\ failRun' = 0
            /\ failRunCloses' = 0
       ELSE /\ NoDataStep(forcedClose)
            /\ failRun' = failRun + 1
            /\ failRunCloses' = failRunCloses + (IF forcedClose THEN 1 ELSE 0)
  /\ UNCHANGED <<exit, connected, consecutive_failures, success, cpIdx,
                 brokerVars, guardVars, readerVars, cycReads, cycPubs, cycOk,
                 cfAtStart, cfTracked, forcedClose>>
  /\ UNCHANGED <<startVars, decVars>>

\* ---------------------------------------------------------- shutdown
TryPcs ==
  {"modbus_connect", "loop", "ec_attempt", "ec_reconnect", "ec_backoff", "ec_return",
   "cooldown", "call_read", "read", "derive", "cp_done", "track", "threshold",
   "poll_sleep"}

LoopPcs == TryPcs \ {"modbus_connect"}

\* Lines 252-253: a KeyboardInterrupt anywhere inside the try block; main's
\* and the callees' frames are unwound.
Interrupt ==
  /\ pc \in TryPcs
  /\ pc' = "finally"
  /\ exit' = "interrupt"
  /\ success' = FALSE
  /\ cpIdx' = 0
  /\ attempt' = 0
  /\ ecResult' = FALSE
  /\ ecLog' = <<>>
  /\ ecStartConnected' = FALSE
  /\ ri' = 0
  /\ data' = EmptyDict
  /\ cpResult' = "none"
  /\ issued' = <<>>
  /\ okVals' = EmptyDict
  /\ okCp' = 0
  /\ lastPub' = {}
  /\ cycKind' = "idle"
  /\ cycReads' = 0
  /\ cycPubs' = {}
  /\ lastSleep' = 0
  /\ cfAtStart' = 0
  /\ cfTracked' = -1
  /\ cycOk' = {}
  /\ forcedClose' = FALSE
  /\ noDataRun' = 0
  /\ runCloses' = 0
  /\ failRun' = 0
  /\ failRunCloses' = 0
  /\ consecutive_failures' = 0
  /\ UNCHANGED <<connected, brokerVars>>
  /\ prevForced' = FALSE
  /\ interruptedAt' = pc
  /\ UNCHANGED <<modbusCreated, decVars>>

\* A mutant of Finally: the field-bus handle is left open.
FinallyNoClose ==
  /\ pc = "finally"
  /\ connected' = connected
  /\ mqttLoop' = FALSE
  /\ mqttConnected' = FALSE
  /\ pc' = "done"
  /\ UNCHANGED <<exit, consecutive_failures, success, cpIdx,
                 guardVars, readerVars, cycleVars, runVars>>
  /\ UNCHANGED <<startVars, decVars>>

\* Lines 254-258: close the field-bus handle, stop the broker loop,
\* disconnect the broker client.
Finally ==
  /\ pc = "finally"
  /\ connected' = FALSE
  /\ mqttLoop' = FALSE
  /\ mqttConnected' = FALSE
  /\ pc' = "done"
  /\ UNCHANGED <<exit, consecutive_failures, success, cpIdx,
                 guardVars, readerVars, cycleVars, runVars>>
  /\ UNCHANGED <<startVars, decVars>>

Next ==
  \/ MqttConnect
  \/ ModbusConnect
  \/ EC_Enter
  \/ EC_Probe
  \/ EC_NoProbe
  \/ EC_Reconnect
  \/ EC_Backoff
  \/ EC_Exhausted
  \/ GuardianReturn
  \/ CooldownSleep
  \/ CallRead
  \/ ReadRegister
  \/ FinishRead
  \/ CpDone
  \/ Track
  \/ Threshold
  \/ PollSleep
  \/ Interrupt
  \/ Finally

Spec == Init /\ [][Next]_vars

\* ------------------------------------------------ the decoders alone
\* read_u16, read_u32, read_i32 and read_u64 called on their own, on
\* registers of the narrow width (every block of words) and of the
\* program's width (blocks whose value fits the checker's integers).
DecBase == 2 ^ DecBits

DecBases == {DecBase, WordBase}

DecKinds == {"u16", "u32", "i32", "u64"}

DecWords(b) == IF b = WordBase THEN {0, 3, 31312, 32767} ELSE 0..(b - 1)

DecHighWords(b) == IF b = WordBase THEN {32768, 65535} ELSE {}

\* The register blocks a response can carry, by decoder.
Blocks(b, kind) ==
  CASE kind = "u32" ->
         { <<hi, lo>> : hi \in DecWords(b), lo \in DecWords(b) \cup DecHighWords(b) }
    [] kind = "i32" ->
         { <<hi, lo>> : hi \in DecWords(b) \cup DecHighWords(b),
                        lo \in DecWords(b) \cup DecHighWords(b) }
    [] kind = "u64" ->
         IF b = WordBase
           THEN { <<0, 0, r2, r3>> : r2 \in DecWords(b),
                                     r3 \in DecWords(b) \cup DecHighWords(b) }
           ELSE { <<r0, r1, r2, r3>> : r0 \in DecWords(b), r1 \in DecWords(b),
                                       r2 \in DecWords(b), r3 \in DecWords(b) }
    [] OTHER -> { <<w>> : w \in DecWords(b) \cup DecHighWords(b) }

\* Signed integers of two words: all of them at the narrow width, the
\* corners and some others at the program's.
SignedSamples(b) ==
  IF b = WordBase
    THEN {-2147483647 - 1, -2147483647, -65537, -65536, -65535, -230480, -2, -1,
          0, 1, 230480, 2147483647}
    ELSE (0 - (b * b) \div 2) .. ((b * b) \div 2 - 1)

\* The two registers, most significant first, that hold the two's
\* complement pattern of n: what struct.pack('>i', n) lays out and lines
\* 113-114 undo.  The pattern of a negative n is n + b*b, whose high word
\* is (n div b) + b.
EncodeI32(b, n) == << IF n < 0 THEN (n \div b) + b ELSE n \div b, n % b >>

\* One decoder call from entry to return.
DecoderRun(b, kind, out, regs, enc) ==
  /\ dBase' = b
  /\ dKind' = kind
  /\ dOut' = out
  /\ dRegs' = regs
  /\ dRequests' = DecoderRequests(kind, out)
  /\ dExit' = DecoderExit(out)
  /\ dResult' = Decode(b, kind, out, regs)
  /\ dEncoded' = enc
  /\ dpc' = "called"

\* A decoder is called; the transport answers with a block of registers,
\* with an error response, or raises.
DecCall ==
  /\ dpc = "idle"
  /\ \E b \in DecBases, kind \in DecKinds, out \in Outcomes :
       \E regs \in Blocks(b, kind) : DecoderRun(b, kind, out, regs, None)
  /\ UNCHANGED mainVars

\* read_i32 is called on the registers that hold a chosen signed integer.
DecSigned ==
  /\ dpc = "idle"
  /\ \E b \in DecBases :
       \E n \in SignedSamples(b) : DecoderRun(b, "i32", "ok", EncodeI32(b, n), Some(n))
  /\ UNCHANGED mainVars

\* The caller takes the result.
DecReturn ==
  /\ dpc = "called"
  /\ dpc' = "idle"
  /\ dBase' = 0
  /\ dKind' = "none"
  /\ dOut' = "none"
  /\ dRegs' = <<>>
  /\ dRequests' = <<>>
  /\ dExit' = "none"
  /\ dResult' = None
  /\ dEncoded' = None
  /\ UNCHANGED mainVars

NextDecoders ==
  \/ DecCall
  \/ DecSigned
  \/ DecReturn

SpecDecoders == Init /\ [][NextDecoders]_vars


\* ------------------------------------------------------------ claims
ConnectOps == {"connect_ok", "connect_err", "connect_exc"}

FailedConnectOps == {"connect_err", "connect_exc"}

ProbeOps == {"probe_ok", "probe_err", "probe_exc"}

Ops(log, S) == SelectSeq(log, LAMBDA e : e.op \in S)

Args(log) == [i \in 1..Len(log) |-> log[i].arg]

\* C1: when ensure_connection (max_retries = 3) returns failure, connect()
\* was called exactly 3 times, every one failed, the backoff sleeps were
\* 2^0 then 2^1, each right after a failed connect and before a further
\* attempt, and the last call made is the third failed connect: no backoff
\* and no connect follows it.
C1_ExhaustedRetries ==
  (pc = "ec_return" /\ ~ecResult) =>
    /\ Len(Ops(ecLog, ConnectOps)) = 3
    /\ Len(Ops(ecLog, FailedConnectOps)) = 3
    /\ Args(Ops(ecLog, {"backoff"})) = <<1, 2>>
    /\ \A i \in 1..Len(ecLog) :
         ecLog[i].op = "backoff" =>
           /\ i > 1
           /\ i < Len(ecLog)
           /\ ecLog[i - 1].op \in FailedConnectOps
    /\ ecLog[Len(ecLog)].op \in FailedConnectOps

C1_Witness == pc = "ec_return" /\ ~ecResult /\ Len(ecLog) >= 8

\* C2 as stated: at the end of the 5th of 5 consecutive cycles in which no
\* charging point yielded data, the connection has been force-closed
\* exactly once in those cycles, in this 5th one, and the counter is zero.
C2_AnyFiveNoDataCycles ==
  (pc = "loop" /\ noDataRun = 5) =>
    /\ runCloses = 1
    /\ forcedClose
    /\ consecutive_failures = 0

\* C2 amended: over 5 all-failed read cycles (the guardian succeeded, no
\* charging point yielded data), counted from the program's start, the last
\* cycle with data or the last forced close, the connection is force-closed
\* exactly once, at the end of the 5th, and the counter is zero right after
\* the close; no forced close happens before the 5th.
C2_FiveFailedReadCycles ==
  /\ (pc = "loop" /\ cycKind = "nodata" /\ failRun = 5) =>
       /\ failRunCloses = 1
       /\ forcedClose
       /\ consecutive_failures = 0
       /\ ~connected
  /\ (failRun < 5) => (failRunCloses = 0)
  /\ (pc = "poll_sleep" /\ forcedClose) => (consecutive_failures = 0 /\ ~connected)
  /\ (pc \in {"poll_sleep", "loop"} /\ cycKind \in {"reading", "nodata"}
        /\ forcedClose) => (cfTracked = 5)

C2_Witness ==
  pc = "loop" /\ cycKind = "nodata" /\ failRun = 5 /\ forcedClose

\* C3 as stated: every finished cycle in which no charging point yielded
\* data incremented the counter, and every finished cycle in which one did
\* left it at zero.
C3_EveryNoDataCycleCounts ==
  /\ (pc = "loop" /\ cycKind \in {"nodata", "guard_failed"}) =>
       (cfTracked = cfAtStart + 1)
  /\ (pc = "loop" /\ cycKind = "data") =>
       (cfTracked = 0 /\ consecutive_failures = 0)

\* C3 amended: every finished cycle in which the guardian succeeded and no
\* charging point yielded data incremented the counter, and every finished
\* cycle in which at least one yielded data left it at zero.
C3_ReadCyclesCount ==
  /\ (pc = "loop" /\ cycKind = "nodata") => (cfTracked = cfAtStart + 1)
  /\ (pc = "loop" /\ cycKind = "data") =>
       (cfTracked = 0 /\ consecutive_failures = 0)

C3_Witness ==
  pc = "loop" /\ cycKind = "nodata" /\ cfAtStart = 2 /\ consecutive_failures = 3

\* C4: in a cycle where ensure_connection reported failure, no charging
\* point register is read and nothing is published; the cycle ends with the
\* 30-unit cooldown and the next one starts.
C4_GuardianFailureSkipsCycle ==
  (cycKind = "guard_failed") =>
    /\ pc \in {"cooldown", "loop"}
    /\ cycReads = 0
    /\ cycPubs = {}
    /\ lastPub = {}
    /\ (pc = "loop" => lastSleep = 30)

C4_Witness == pc = "loop" /\ cycKind = "guard_failed" /\ lastSleep = 30

\* C5: a charging point whose ten reads all failed gets None from
\* read_charging_point and no publish_data call in that cycle; publish_data
\* is called for exactly the points that had a successful read, and both
\* points are read in full whatever the other one gave.
C5_UnreadPointNotPublished ==
  /\ (pc = "cp_done" /\ DOMAIN okVals = {}) => (cpResult = "none")
  /\ (pc \in {"call_read", "track"}) => (cycPubs = cycOk)
  /\ (pc = "track") => (cycReads = 20)

C5_Witness == pc = "track" /\ cycPubs = {2} /\ cycOk = {2}

\* C6: ensure_connection entered on a handle that says it is connected
\* issues exactly one probe; a good probe returns success at once, with no
\* close, connect or sleep; a probe that errs or raises is followed by
\* close, the 1-unit delay and a connect.
C6_ConnectedHandleProbedOnce ==
  /\ (pc \in {"ec_attempt", "ec_reconnect", "ec_backoff", "ec_return"}) =>
       (Len(Ops(ecLog, ProbeOps)) <= 1)
  /\ (pc = "ec_return" /\ ecStartConnected) =>
       /\ Len(Ops(ecLog, ProbeOps)) = 1
       /\ ecLog[1].op \in ProbeOps
       /\ (ecLog[1].op = "probe_ok") => (ecResult /\ Len(ecLog) = 1 /\ connected)
       /\ (ecLog[1].op # "probe_ok") =>
            /\ Len(ecLog) >= 4
            /\ ecLog[2].op = "close"
            /\ ecLog[3] = Event("delay", 1)
            /\ ecLog[4].op \in ConnectOps

C6_Witness ==
  /\ pc = "ec_return"
  /\ ecStartConnected
  /\ ecResult
  /\ ecLog[1].op = "probe_exc"

C6_WitnessAlive ==
  pc = "ec_return" /\ ecStartConnected /\ ecLog = <<Event("probe_ok", 0)>>

\* C7 as stated: every published message carries the value one successful
\* read of this call, for this charging point, decoded under its key.
C7_EveryValueOneRead ==
  \A m \in lastPub :
    /\ m.name = CHARGING_POINTS[okCp].name
    /\ m.key \in DOMAIN okVals
    /\ m.payload = okVals[m.key]

\* C7 amended: every published message other than Cosphi carries the value
\* one successful read of this call, for this charging point, decoded under
\* its key; Cosphi is the quotient of the Power and ApparentPower values
\* read in this call.
C7_ValuesFromThisCycle ==
  \A m \in lastPub :
    /\ m.name = CHARGING_POINTS[okCp].name
    /\ IF m.key = "Cosphi"
         THEN /\ {"Power", "ApparentPower"} \subseteq DOMAIN okVals
              /\ m.payload = Quotient(okVals["Power"], okVals["ApparentPower"])
         ELSE /\ m.key \in DOMAIN okVals
              /\ m.payload = okVals[m.key]

C7_Witness ==
  /\ okCp = 2
  /\ \E m \in lastPub : m.key = "Cosphi"
  /\ \E m \in lastPub : m.key = "Voltage/L1"
  /\ "Import" \notin DOMAIN okVals

\* C8 as stated: while the poll loop runs, the handle's state changes only
\* in ensure_connection's reconnect step.
C8_OnlyGuardianMutates ==
  [][(pc \in LoopPcs /\ connected' # connected) => pc = "ec_reconnect"]_vars

\* C8 amended: while the poll loop runs, the handle's state changes only in
\* ensure_connection's reconnect step and in the orchestrator's forced
\* close, which happens only with the counter at the threshold of 5.
C8_GuardianOrForcedClose ==
  [][(pc \in LoopPcs /\ connected' # connected) =>
       \/ pc = "ec_reconnect"
       \/ pc = "threshold" /\ ~connected' /\ consecutive_failures >= 5]_vars

C8_Witness == pc = "poll_sleep" /\ forcedClose /\ ~connected

\* C9: the returned metric set has Cosphi exactly when it has Power and
\* ApparentPower and the apparent power is greater than zero.
C9_CosphiIff ==
  (pc = "cp_done") =>
    ("Cosphi" \in DOMAIN data <=>
       /\ "Power" \in DOMAIN data
       /\ "ApparentPower" \in DOMAIN data
       /\ data["ApparentPower"][1] > 0)

C9_Witness ==
  /\ pc = "cp_done"
  /\ "Cosphi" \in DOMAIN data
  /\ data["Cosphi"] = <<1000, 1000>>

\* C10: the non-derived keys of the returned metric set are exactly the
\* keys whose read succeeded, each with the value that read decoded.
C10_KeysAreSuccessfulReads ==
  (pc = "cp_done") =>
    /\ (DOMAIN data) \ {"Cosphi"} = DOMAIN okVals
    /\ \A k \in DOMAIN okVals : data[k] = okVals[k]

C10_Witness ==
  /\ pc = "cp_done"
  /\ DOMAIN okVals = {"Voltage/L1", "Power"}
  /\ DOMAIN data = {"Voltage/L1", "Power"}

\* C11: read_charging_point issues all ten register reads, in the order
\* voltage L1, L2, L3, current L1, L2, L3, power, reactive power, apparent
\* power, energy total, whatever the earlier reads returned: while it runs
\* the requests made so far are the first ri - 1 of that list, and when it
\* is through they are all ten.
C11_AllTenReadsInOrder ==
  LET offsets == <<232, 234, 236, 238, 240, 242, 244, 246, 248, 250>>
      counts == <<2, 2, 2, 2, 2, 2, 2, 2, 2, 4>>
      expected == [ i \in 1..10 |->
                    <<CHARGING_POINTS[okCp].base_address + offsets[i], counts[i]>> ]
  IN /\ (pc = "read") => (ri \in 1..10 /\ issued = SubSeq(expected, 1, ri - 1))
     /\ (pc \in {"derive", "cp_done"}) => (issued = expected)

\* A call whose first two reads and most others had no value, and which
\* still went on to the third and to the last read.
C11_Witness ==
  /\ pc = "cp_done"
  /\ Len(issued) = 10
  /\ DOMAIN okVals = {"Voltage/L3", "Import"}

\* C12: a decoder call makes exactly one request, of 1 register (read_u16),
\* 2 (read_u32, read_i32) or 4 (read_u64); it never raises; it returns None
\* on an error response and on an exception of the transport, and a value
\* otherwise.
C12_OneRequestNeverRaises ==
  (dpc = "called") =>
    /\ dRequests = << CASE dKind = "u16" -> 1
                        [] dKind = "u32" -> 2
                        [] dKind = "i32" -> 2
                        [] dKind = "u64" -> 4 >>
    /\ dExit # "raised"
    /\ (dOut \in {"err", "exc"}) => (dResult = None /\ dExit = "none")
    /\ (dOut = "ok") => (dResult # None /\ dExit = "value")

\* read_u16 called while the transport raises.
C12_Witness ==
  /\ dpc = "called"
  /\ dKind = "u16"
  /\ dOut = "exc"
  /\ dRequests = <<1>>
  /\ dResult = None

\* C13: read_i32 on the two registers that hold the two's complement
\* pattern of a negative integer n of two words returns n.
C13_NegativeRoundTrip ==
  (dpc = "called" /\ dKind = "i32" /\ dOut = "ok" /\ dEncoded # None) =>
    ((dEncoded[1] < 0) => (dResult = dEncoded))

\* The most negative 32-bit integer, whose pattern is 0x8000 0x0000.
C13_Witness ==
  /\ dpc = "called"
  /\ dBase = WordBase
  /\ dRegs = <<32768, 0>>
  /\ dEncoded # None
  /\ dEncoded[1] < 0
  /\ dResult = dEncoded

\* C14: a successful read_u32 returns (hi << 16) | lo and a successful
\* read_u64 returns (r0 << 48) | (r1 << 32) | (r2 << 16) | r3: the
\* non-negative integer whose digits in the word base are the registers
\* read, most significant first.
C14_BigEndianComposition ==
  (dpc = "called" /\ dOut = "ok" /\ dKind \in {"u32", "u64"}) =>
    /\ dResult # None
    /\ LET v == dResult[1]
       IN IF dKind = "u32"
            THEN /\ v >= 0
                 /\ v \div dBase = dRegs[1]
                 /\ v % dBase = dRegs[2]
            ELSE /\ v >= 0
                 /\ ((v \div dBase) \div dBase) \div dBase = dRegs[1]
                 /\ ((v \div dBase) \div dBase) % dBase = dRegs[2]
                 /\ (v \div dBase) % dBase = dRegs[3]
                 /\ v % dBase = dRegs[4]

\* read_u32 on a block whose two words differ and are both non-zero.
C14_Witness ==
  /\ dpc = "called"
  /\ dOut = "ok"
  /\ dKind = "u32"
  /\ dBase = WordBase
  /\ dRegs = <<3, 31312>>
  /\ dResult = <<227920>>

\* read_u64 on a block whose four words are all non-zero.
C14_WitnessU64 ==
  /\ dpc = "called"
  /\ dOut = "ok"
  /\ dKind = "u64"
  /\ dRegs = <<1, 2, 3, 1>>
  /\ dResult # None

\* One step of the poll loop other than the arrival of an interrupt.
LoopStep ==
  \/ EC_Enter
  \/ EC_Probe
  \/ EC_NoProbe
  \/ EC_Reconnect
  \/ EC_Backoff
  \/ EC_Exhausted
  \/ GuardianReturn
  \/ CooldownSleep
  \/ CallRead
  \/ ReadRegister
  \/ FinishRead
  \/ CpDone
  \/ Track
  \/ Threshold
  \/ PollSleep

\* C15: an interrupt can arrive at every point of the poll loop (guardian,
\* read, publish, sleep); it takes the thread to the finally block and
\* nowhere else; and when main has exited after an interrupt the field-bus
\* handle is closed, the broker loop is stopped and the broker client is
\* disconnected.
C15_InterruptShutsDown ==
  /\ [](pc \in LoopPcs => ENABLED Interrupt)
  /\ [][(exit # "interrupt" /\ exit' = "interrupt")
          => (pc \in TryPcs /\ pc' = "finally" /\ interruptedAt' = pc)]_vars
  /\ []((exit = "interrupt") => (pc \in {"finally", "done"}))
  /\ []((pc = "done" /\ exit = "interrupt")
          => (~connected /\ ~mqttLoop /\ ~mqttConnected))

\* Main has exited after an interrupt that arrived between two register
\* reads.
C15_Witness ==
  /\ pc = "done"
  /\ exit = "interrupt"
  /\ interruptedAt = "read"
  /\ ~connected
  /\ ~mqttLoop
  /\ ~mqttConnected

\* C16: no guardian failure and no failed read cycle ends the process:
\* every point of the poll loop has a next step inside the loop, and the
\* loop is left only by an interrupt.
C16_LoopLeftOnlyByInterrupt ==
  /\ [](pc \in LoopPcs => ENABLED LoopStep)
  /\ [][(pc \in LoopPcs /\ pc' \notin LoopPcs)
          => (pc' = "finally" /\ exit' = "interrupt")]_vars
  /\ [][(pc \in LoopPcs /\ exit' = exit) => (pc' \in LoopPcs)]_vars

\* The loop goes on after a guardian failure that followed four
\* all-failed read cycles.
C16_Witness ==
  /\ pc = "loop"
  /\ exit = "none"
  /\ cycKind = "guard_failed"
  /\ lastSleep = Cooldown
  /\ consecutive_failures = 4

\* C17: after a failed broker connect main is through at once: no
\* field-bus client was created or connected and no poll cycle began.
\* After a refused first field-bus connect main goes through the finally
\* block only: no guardian call, no read, no publish.
C17_StartupFailureFatal ==
  /\ (exit = "mqtt_failed") =>
       /\ pc = "done"
       /\ ~modbusCreated
       /\ ~connected
       /\ cycKind = "idle"
  /\ (exit = "modbus_failed") =>
       /\ pc \in {"finally", "done"}
       /\ modbusCreated
       /\ ~connected
       /\ cycKind = "idle"
       /\ ecLog = <<>>
       /\ cycReads = 0
       /\ issued = <<>>
       /\ cycPubs = {}
       /\ lastPub = {}

\* Main has exited after the first field-bus connect was refused.
C17_Witness ==
  /\ exit = "modbus_failed"
  /\ pc = "done"
  /\ ~mqttConnected

\* Main has exited after the broker connect raised.
C17_WitnessBroker ==
  /\ exit = "mqtt_failed"
  /\ pc = "done"

\* C18: in the cycle after a forced close, ensure_connection makes no
\* probe read; the first things it does are the 1-unit delay and a
\* connect; and main calls read_charging_point in that cycle only after a
\* connect of that invocation succeeded.
C18_AfterForcedCloseReconnect ==
  /\ (pc = "loop" /\ forcedClose) => ~connected
  /\ (prevForced /\ pc \in {"ec_return", "cooldown", "call_read"}) =>
       /\ ~ecStartConnected
       /\ \A i \in 1..Len(ecLog) : ecLog[i].op \notin {"probe_ok", "probe_err", "probe_exc", "close"}
       /\ Len(ecLog) >= 2
       /\ ecLog[1] = [op |-> "delay", arg |-> 1]
       /\ ecLog[2].op \in {"connect_ok", "connect_err", "connect_exc"}
  /\ (prevForced /\ pc = "call_read") =>
       /\ ecLog[Len(ecLog)].op = "connect_ok"
       /\ connected
       /\ cycReads = 0
  /\ (prevForced /\ pc = "cooldown") =>
       /\ \A i \in 1..Len(ecLog) : ecLog[i].op # "connect_ok"
       /\ ~connected
  /\ (prevForced /\ cycKind \in {"reading", "guard_failed"}) =>
       (pc \in {"call_read", "cooldown"})

\* The cycle after a forced close is about to read the charging points:
\* the reconnect succeeded at the second attempt.
C18_Witness ==
  /\ prevForced
  /\ pc = "call_read"
  /\ Len(ecLog) = 5
  /\ ecLog[2].op = "connect_err"
  /\ ecLog[5].op = "connect_ok"

\* C19: when a poll cycle starts the consecutive-failure counter is one of
\* 0..4.
C19_CounterBelowThresholdAtCycleStart ==
  /\ (pc = "loop") => (consecutive_failures \in 0..4)
  /\ (cycKind # "idle") => (cfAtStart \in 0..4)
  /\ consecutive_failures \in 0..5
  /\ (consecutive_failures = 5) => (pc = "threshold")

\* A cycle starts with the counter at 4.
C19_Witness ==
  /\ pc = "ec_attempt"
  /\ cycKind = "guarding"
  /\ cfAtStart = 4
  /\ consecutive_failures = 4

====
